---- MODULE Spec2Model ----
(***************************************************************************)
(* Sales dashboard (src/app.py): process_data (normalise + left join) and  *)
(* the filter / aggregate steps of main, modelled as a state machine.      *)
(*                                                                         *)
(* Data representation                                                     *)
(*   cell text       the text of an Item Id / Qty / Sale Price cell is a   *)
(*                   sequence of one-character strings, <<"1", "0">>       *)
(*   raw sheet cell  [isnum, n, s]: a number n or a text s                 *)
(*   raw Date cell   <<dd, mon, yyyy>>, the three '-'-separated fields     *)
(*   nullable value  <<>> is NaN / NaT / None, <<v>> is the value v        *)
(*   Timestamp       [y, m, d]                                             *)
(*   DataFrame       a sequence of rows (records), in row order            *)
(*   Sales frames have the columns Date, Item Id, City, Brand, Qty; the    *)
(*   column Platform of the enriched frame is the catalog's.               *)
(***************************************************************************)
EXTENDS Integers, Sequences, FiniteSets, TLC

VARIABLES
    sales_dfs,      \* main: list of raw sales batches (load_data_from_sheets)
    product_df,     \* main: the catalog frame (mutated in place by process_data)
    df,             \* main: the enriched frame returned by process_data
    nat_count,      \* process_data: local count of NaT dates (only printed)
    cities,         \* sidebar multiselect "City"
    categories,     \* sidebar multiselect "Category"
    date_range,     \* sidebar date_input "Date Range": a tuple of 0..2 dates
    filtered_df,    \* main: rows kept by the city/category/date filter
    kpi,            \* KPI block: <<>> until rendered, then <<record>>
    charts,         \* city_sales / category_sales: <<>> until rendered
    platforms,      \* multiselect "Select Platforms for Tables"
    table_df,       \* main: rows kept by the platform filter
    tables,         \* tables 1..7 and the daily series: <<>> until rendered
    outcome,        \* which message / end state the run produced
    pc              \* position of main

vars == <<sales_dfs, product_df, df, nat_count, cities, categories, date_range,
          filtered_df, kpi, charts, platforms, table_df, tables, outcome, pc>>

----------------------------------------------------------------------------
(* Generic helpers *)

NaN == <<>>

IsNa(x) == x = <<>>

\* a column of a frame (a Series), by name
Col(f, name) == [i \in 1..Len(f) |-> f[i][name]]

RECURSIVE SelectIdx(_, _)
\* the positions i >= from, ascending, at which the boolean Series mask holds
SelectIdx(mask, from) ==
    IF from > Len(mask) THEN <<>>
    ELSE IF mask[from] THEN <<from>> \o SelectIdx(mask, from + 1)
    ELSE SelectIdx(mask, from + 1)

\* boolean-mask selection frame[mask]: keeps the rows in order
Mask(f, mask) ==
    LET idx == SelectIdx(mask, 1) IN [i \in 1..Len(idx) |-> f[idx[i]]]

RECURSIVE SumFrom(_, _)
SumFrom(col, from) ==
    IF from > Len(col) THEN 0
    ELSE (IF col[from] = <<>> THEN 0 ELSE col[from][1]) + SumFrom(col, from + 1)

\* Series.sum() of a nullable numeric column: NaN is skipped, i.e. counts as 0
Sum(col) == SumFrom(col, 1)

\* Series.unique(), as a set (NaN is one of the values)
Unique(col) == {col[i] : i \in 1..Len(col)}

----------------------------------------------------------------------------
(* Cell coercions *)

DigitChars == <<"0", "1", "2", "3", "4", "5", "6", "7", "8", "9">>

IsDigit(c) == \E i \in 1..10 : DigitChars[i] = c

DigitVal(c) == (CHOOSE i \in 1..10 : DigitChars[i] = c) - 1

RECURSIVE NatToStr(_)
NatToStr(n) ==
    IF n < 10 THEN <<DigitChars[n + 1]>>
    ELSE NatToStr(n \div 10) \o <<DigitChars[(n % 10) + 1]>>

\* .astype(str) on one cell
AsStr(cell) ==
    IF cell.isnum
    THEN IF cell.n < 0 THEN <<"-">> \o NatToStr(0 - cell.n) ELSE NatToStr(cell.n)
    ELSE cell.s

RECURSIVE DigitsToNat(_, _)
DigitsToNat(s, acc) ==
    IF s = <<>> THEN acc ELSE DigitsToNat(Tail(s), 10 * acc + DigitVal(Head(s)))

AllDigits(s) == s # <<>> /\ \A i \in 1..Len(s) : IsDigit(s[i])

\* pd.to_numeric(errors='coerce') on one cell: a number, or NaN
ToNumeric(cell) ==
    IF cell.isnum THEN <<cell.n>>
    ELSE IF AllDigits(cell.s) THEN <<DigitsToNat(cell.s, 0)>>
    ELSE IF cell.s # <<>> /\ Head(cell.s) = "-" /\ AllDigits(Tail(cell.s))
         THEN <<0 - DigitsToNat(Tail(cell.s), 0)>>
    ELSE NaN

----------------------------------------------------------------------------
(* Dates *)

MonthAbbr == <<"Jan", "Feb", "Mar", "Apr", "May", "Jun",
               "Jul", "Aug", "Sep", "Oct", "Nov", "Dec">>

MonthName == <<"January", "February", "March", "April", "May", "June", "July",
               "August", "September", "October", "November", "December">>

IsLeap(y) == (y % 4 = 0 /\ y % 100 # 0) \/ y % 400 = 0

DaysInMonth(y, m) ==
    IF m = 2 THEN (IF IsLeap(y) THEN 29 ELSE 28)
    ELSE IF m \in {4, 6, 9, 11} THEN 30 ELSE 31

\* pd.to_datetime(format="%d-%b-%Y", errors='coerce') on one raw value
\* <<dd, mon, yyyy>> (the three '-'-separated fields): a Timestamp, or NaT
ToDatetime(raw) ==
    IF /\ Len(raw) = 3
       /\ \E m \in 1..12 : MonthAbbr[m] = raw[2]
       /\ raw[3] \in 1000..9999
    THEN LET m == CHOOSE k \in 1..12 : MonthAbbr[k] = raw[2] IN
         IF raw[1] \in 1..DaysInMonth(raw[3], m)
         THEN <<[y |-> raw[3], m |-> m, d |-> raw[1]]>>
         ELSE <<>>
    ELSE <<>>

RECURSIVE DaysBeforeMonth(_, _)
DaysBeforeMonth(y, m) ==
    IF m = 1 THEN 0 ELSE DaysBeforeMonth(y, m - 1) + DaysInMonth(y, m - 1)

\* proleptic Gregorian ordinal of a Timestamp (the order of dates)
Ordinal(t) ==
    LET p == t.y - 1 IN
    365 * p + (p \div 4) - (p \div 100) + (p \div 400)
        + DaysBeforeMonth(t.y, t.m) + t.d

\* Monday = 0 .. Sunday = 6
Weekday(t) == (Ordinal(t) + 6) % 7

\* ordinal of the Monday that starts ISO week 1 of year y
IsoWeek1Monday(y) ==
    LET firstday == Ordinal([y |-> y, m |-> 1, d |-> 1])
        firstweekday == (firstday + 6) % 7
        monday == firstday - firstweekday
    IN  IF firstweekday > 3 THEN monday + 7 ELSE monday

\* Series.dt.isocalendar().week
IsoWeek(t) ==
    LET today == Ordinal(t) IN
    IF today < IsoWeek1Monday(t.y)
    THEN ((today - IsoWeek1Monday(t.y - 1)) \div 7) + 1
    ELSE IF today >= IsoWeek1Monday(t.y + 1) THEN 1
    ELSE ((today - IsoWeek1Monday(t.y)) \div 7) + 1

\* Series.dt.to_period('W-MON') ... start_time, as an ordinal: 'W-MON' is the
\* weekly frequency anchored on Monday as the LAST day of the period, so the
\* period of a date runs from a Tuesday to the following Monday
WeekStart(t) == Ordinal(t) - ((Weekday(t) + 6) % 7)

\* Series.dt.strftime('%B %Y')
MonthLabel(t) == [month |-> MonthName[t.m], year |-> t.y]

\* strftime('%B %Y') + ' Week ' + isocalendar().week.astype(str)
MonthWeekLabel(t) ==
    [month |-> MonthName[t.m], year |-> t.y, week |-> NatToStr(IsoWeek(t))]

\* month names in the order of their spelling
MonthsSpelled == <<"April", "August", "December", "February", "January", "July",
                   "June", "March", "May", "November", "October", "September">>

SpelledRank(name) == CHOOSE i \in 1..12 : MonthsSpelled[i] = name

RECURSIVE DigitsLess(_, _)
\* string order of two digit strings
DigitsLess(a, b) ==
    IF b = <<>> THEN FALSE
    ELSE IF a = <<>> THEN TRUE
    ELSE IF Head(a) # Head(b) THEN DigitVal(Head(a)) < DigitVal(Head(b))
    ELSE DigitsLess(Tail(a), Tail(b))

\* string order of two '%B %Y' labels (years have four digits)
MonthLabelLess(a, b) ==
    \/ SpelledRank(a.month) < SpelledRank(b.month)
    \/ a.month = b.month /\ a.year < b.year

\* string order of two 'Month Week' labels
MonthWeekLabelLess(a, b) ==
    \/ MonthLabelLess(a, b)
    \/ a.month = b.month /\ a.year = b.year /\ DigitsLess(a.week, b.week)

----------------------------------------------------------------------------
(* process_data *)

RECURSIVE Concat(_)
\* pd.concat(sales_dfs, ignore_index=True): batch order, then row order
Concat(dfs) == IF dfs = <<>> THEN <<>> ELSE Head(dfs) \o Concat(Tail(dfs))

\* a frame has its columns only if the sheet had at least one record
\* (pd.DataFrame([]) has no columns): column access raises KeyError otherwise
HasColumns(f) == Len(f) > 0

\* Item Id -> str, Qty -> numeric, Date -> datetime, column by column
SalesCoerced(sales_df) ==
    [i \in 1..Len(sales_df) |->
        [Date   |-> ToDatetime(sales_df[i].Date),
         ItemId |-> AsStr(sales_df[i].ItemId),
         City   |-> sales_df[i].City,
         Brand  |-> sales_df[i].Brand,
         Qty    |-> ToNumeric(sales_df[i].Qty)]]

\* product_df after its in-place coercions (lines 55, 60)
ProductCoerced(p_df) ==
    [i \in 1..Len(p_df) |->
        [ItemId          |-> AsStr(p_df[i].ItemId),
         SKU             |-> p_df[i].SKU,
         CategoryName    |-> p_df[i].CategoryName,
         SubCategoryName |-> p_df[i].SubCategoryName,
         SalePrice       |-> ToNumeric(p_df[i].SalePrice),
         Platform        |-> p_df[i].Platform]]

\* Series.isna()
IsNaMask(col) == [i \in 1..Len(col) |-> IsNa(col[i])]

\* sales_df['Date'].isna().sum()
NatCount(sales_df) == Len(SelectIdx(IsNaMask(Col(sales_df, "Date")), 1))

\* sales_df.dropna(subset=['Date'])
DropNaDate(sales_df) ==
    Mask(sales_df, [i \in 1..Len(sales_df) |-> ~IsNa(sales_df[i].Date)])

\* Qty * Sale Price, NaN if either is NaN
NanMul(a, b) == IF IsNa(a) \/ IsNa(b) THEN NaN ELSE <<a[1] * b[1]>>

\* FillNa0 without the fill
FillNa0Skipped(x) == x

\* .fillna(0)
FillNa0(x) == IF IsNa(x) THEN <<0>> ELSE x

\* one merged row; p is <<>> (no match) or <<catalog row>>. The column
\* 'DesiDiya - SKU' is renamed to 'Product Name'.
MergedRow(s, p) ==
    LET price == IF p = <<>> THEN NaN ELSE p[1].SalePrice IN
    [Date            |-> s.Date,
     ItemId          |-> s.ItemId,
     City            |-> s.City,
     Brand           |-> s.Brand,
     Qty             |-> s.Qty,
     ProductName     |-> IF p = <<>> THEN <<>> ELSE <<p[1].SKU>>,
     CategoryName    |-> IF p = <<>> THEN <<>> ELSE <<p[1].CategoryName>>,
     SubCategoryName |-> IF p = <<>> THEN <<>> ELSE <<p[1].SubCategoryName>>,
     SalePrice       |-> price,
     Platform        |-> IF p = <<>> THEN <<>> ELSE <<p[1].Platform>>,
     TotalSales      |-> FillNa0(NanMul(s.Qty, price))]

\* LeftJoinRow as how='inner' would have it: no row without a match
LeftJoinRowInner(s, right) ==
    LET idx == SelectIdx([j \in 1..Len(right) |-> right[j].ItemId = s.ItemId], 1)
    IN  [k \in 1..Len(idx) |-> MergedRow(s, <<right[idx[k]]>>)]

\* LeftJoinRow over a catalog deduplicated on Item Id: the first match only
LeftJoinRowFirst(s, right) ==
    LET idx == SelectIdx([j \in 1..Len(right) |-> right[j].ItemId = s.ItemId], 1)
    IN  IF idx = <<>> THEN <<MergedRow(s, <<>>)>>
        ELSE <<MergedRow(s, <<right[idx[1]]>>)>>

\* the rows one left row contributes to a how='left' merge
LeftJoinRow(s, right) ==
    LET idx == SelectIdx([j \in 1..Len(right) |-> right[j].ItemId = s.ItemId], 1)
    IN  IF idx = <<>> THEN <<MergedRow(s, <<>>)>>
        ELSE [k \in 1..Len(idx) |-> MergedRow(s, <<right[idx[k]]>>)]

RECURSIVE Merge(_, _, _)
\* pd.merge(left, right, on='Item Id', how='left'): left order is kept
Merge(left, right, from) ==
    IF from > Len(left) THEN <<>>
    ELSE LeftJoinRow(left[from], right) \o Merge(left, right, from + 1)

\* process_data raises KeyError at its first column access on a frame
\* without columns
ProcessRaises(s_dfs, p_df) == ~HasColumns(Concat(s_dfs)) \/ ~HasColumns(p_df)

\* lines 80-103 : pd.DataFrame() when every row was dropped, else the merge
MergeOrEmpty(sales_df, p_df) ==
    IF sales_df = <<>> THEN <<>> ELSE Merge(sales_df, p_df, 1)

\* the frame process_data returns
process_data(s_dfs, p_df) ==
    MergeOrEmpty(DropNaDate(SalesCoerced(Concat(s_dfs))), ProductCoerced(p_df))

----------------------------------------------------------------------------
(* Inputs: what load_data_from_sheets can hand to main *)

Num(n) == [isnum |-> TRUE, n |-> n, s |-> <<>>]

Str(s) == [isnum |-> FALSE, n |-> 0, s |-> s]

MaxSalesRows == 2

MaxCatalogRows == 2

SalesRow(date, id, city, brand, qty) ==
    [Date |-> date, ItemId |-> id, City |-> city, Brand |-> brand, Qty |-> qty]

\* sales sheet rows: valid dates on the Monday and the Tuesday of one ISO week
\* and in another month, a date that does not parse, numeric and string ids,
\* and numeric, non-numeric and negative quantities
SalesRows ==
    { SalesRow(<<6, "Jan", 2025>>,  Num(5),       "Pune",  "Diya", Num(3)),
      SalesRow(<<7, "Jan", 2025>>,  Str(<<"9">>), "Delhi", "Diya", Num(2)),
      SalesRow(<<31, "13", 2025>>,  Num(5),       "Pune",  "Diya", Num(1)),
      SalesRow(<<6, "Jan", 2025>>,  Str(<<"7">>), "Pune",  "Agni", Num(4)),
      SalesRow(<<7, "Jan", 2025>>,  Str(<<"5">>), "Delhi", "Agni", Str(<<"a", "b", "c">>)),
      SalesRow(<<1, "Feb", 2025>>,  Num(5),       "Pune",  "Agni", Str(<<"-", "1">>)) }

ProductRow(id, sku, cat, price, platform) ==
    [ItemId |-> id, SKU |-> sku, CategoryName |-> cat, SubCategoryName |-> "Sub",
     SalePrice |-> price, Platform |-> platform]

\* catalog sheet rows: a duplicated Item Id and a non-numeric price
ProductRows ==
    { ProductRow(Num(5), "Widget", "Home",  Str(<<"1", "0">>), "Amazon"),
      ProductRow(Num(9), "Lamp",   "Decor", Num(20),           "Flipkart"),
      ProductRow(Str(<<"9">>), "Lamp XL", "Decor", Str(<<"x">>), "Amazon") }

SeqsUpTo(S, n) == UNION {[1..k -> S] : k \in 0..n}

\* line 19 : the four sales sheets
NumSheets == 4

\* the frames cut out of the rows s at the cut points c
Batches(s, c) ==
    [i \in 1..NumSheets |->
        SubSeq(s, (IF i = 1 THEN 0 ELSE c[i - 1]) + 1,
                  IF i = NumSheets THEN Len(s) ELSE c[i])]

\* the sales batches: NumSheets frames holding at most MaxSalesRows rows in all
SalesInputs ==
    UNION {{Batches(s, c) :
              c \in {d \in [1..(NumSheets - 1) -> 0..Len(s)] :
                        \A i \in 1..(NumSheets - 2) : d[i] <= d[i + 1]}} :
           s \in SeqsUpTo(SalesRows, MaxSalesRows)}

ProductInputs == SeqsUpTo(ProductRows, MaxCatalogRows)

\* the catalog sheets of the runs of main: empty, one product, and all
\* products with the Item Id 9 entered twice
CatalogSheets ==
    { <<>>,
      <<ProductRow(Num(5), "Widget", "Home", Str(<<"1", "0">>), "Amazon")>>,
      <<ProductRow(Num(5), "Widget", "Home", Str(<<"1", "0">>), "Amazon"),
        ProductRow(Num(9), "Lamp", "Decor", Num(20), "Flipkart"),
        ProductRow(Str(<<"9">>), "Lamp XL", "Decor", Str(<<"x">>), "Amazon")>> }

----------------------------------------------------------------------------
(* Aggregate views *)

\* key columns; a key that is never null is wrapped like a nullable one
KeyCity(f) == [i \in 1..Len(f) |-> <<f[i].City>>]

KeyBrand(f) == [i \in 1..Len(f) |-> <<f[i].Brand>>]

\* table_df['Date'].dt.date
KeyDay(f) == [i \in 1..Len(f) |-> f[i].Date]

\* table_df['Month Name']
KeyMonth(f) == [i \in 1..Len(f) |-> <<MonthLabel(f[i].Date[1])>>]

\* the pair (table_df['Month Week'], table_df['Week Start'])
KeyWeek(f) ==
    [i \in 1..Len(f) |-> <<[MonthWeek |-> MonthWeekLabel(f[i].Date[1]),
                            WeekStart |-> WeekStart(f[i].Date[1])]>>]

\* the group keys of frame.groupby(key): rows whose key is NaN belong to no
\* group (dropna=True is the default)
GroupKeys(keycol) == {k[1] : k \in Unique(keycol) \ {NaN}}

\* the rows of one group
Group(f, keycol, k) == Mask(f, [i \in 1..Len(f) |-> keycol[i] = <<k>>])

\* frame.groupby(key)['Total Sales'].sum()
GroupSales(f, keycol) ==
    [k \in GroupKeys(keycol) |-> Sum(Col(Group(f, keycol, k), "TotalSales"))]

\* frame.groupby(key).agg({'Qty': 'sum', 'Total Sales': 'sum'})
GroupAgg(f, keycol) ==
    [k \in GroupKeys(keycol) |->
        [Qty        |-> Sum(Col(Group(f, keycol, k), "Qty")),
         TotalSales |-> Sum(Col(Group(f, keycol, k), "TotalSales"))]]

\* frame.pivot_table(values, index='Product Name', columns='Platform',
\* aggfunc='sum', fill_value=0)
Pivot(f, values) ==
    LET g == Mask(f, [i \in 1..Len(f) |->
                        ~IsNa(f[i].ProductName) /\ ~IsNa(f[i].Platform)])
    IN  [c \in GroupKeys(Col(g, "ProductName")) \X GroupKeys(Col(g, "Platform")) |->
            Sum(Col(Mask(g, [i \in 1..Len(g) |->
                                /\ g[i].ProductName = <<c[1]>>
                                /\ g[i].Platform = <<c[2]>>]), values))]

RECURSIVE SortMonthLabels(_)
\* DataFrame.sort_values(by='Month Name'): the labels in string order
SortMonthLabels(S) ==
    IF S = {} THEN <<>>
    ELSE LET x == CHOOSE a \in S : \A b \in S \ {a} : MonthLabelLess(a, b)
         IN  <<x>> \o SortMonthLabels(S \ {x})

\* lines 248-250 : monthly_summary, sorted by the 'Month Name' string
MonthlySummary(f) ==
    LET agg == GroupAgg(f, KeyMonth(f))
        keys == SortMonthLabels(DOMAIN agg)
    IN  [i \in 1..Len(keys) |->
            [MonthName |-> keys[i], Qty |-> agg[keys[i]].Qty,
             TotalSales |-> agg[keys[i]].TotalSales]]

\* order of the weekly rows: by 'Week Start'; rows with one 'Week Start' stay
\* in the group order (Month Week, Week Start) of groupby
WeekRowLess(a, b) ==
    \/ a.WeekStart < b.WeekStart
    \/ a.WeekStart = b.WeekStart /\ MonthWeekLabelLess(a.MonthWeek, b.MonthWeek)

RECURSIVE SortWeekRows(_)
\* DataFrame.sort_values(by='Week Start') on the groupby result
SortWeekRows(S) ==
    IF S = {} THEN <<>>
    ELSE LET x == CHOOSE a \in S : \A b \in S \ {a} : WeekRowLess(a, b)
         IN  <<x>> \o SortWeekRows(S \ {x})

\* lines 255-258 : weekly_summary
WeeklySummary(f) ==
    LET agg == GroupAgg(f, KeyWeek(f))
        keys == SortWeekRows(DOMAIN agg)
    IN  [i \in 1..Len(keys) |->
            [MonthWeek |-> keys[i].MonthWeek, WeekStart |-> keys[i].WeekStart,
             Qty |-> agg[keys[i]].Qty, TotalSales |-> agg[keys[i]].TotalSales]]

\* lines 177-187 : the four KPI metrics; the average price is kept as the
\* fraction num / den
Kpis(f) ==
    LET total_sales == Sum(Col(f, "TotalSales"))
        total_qty == Sum(Col(f, "Qty"))
    IN  [total_sales  |-> total_sales,
         total_qty    |-> total_qty,
         total_orders |-> Len(f),
         avg_selling_price |->
             IF total_qty > 0 THEN [num |-> total_sales, den |-> total_qty]
             ELSE [num |-> 0, den |-> 1]]

\* lines 193, 199 : the two charts above the platform filter
Charts(f) ==
    [city_sales     |-> GroupSales(f, KeyCity(f)),
     category_sales |-> GroupSales(f, Col(f, "CategoryName"))]

\* lines 214-264 : tables 1 to 7 and the daily series
Tables(f) ==
    [pivot_qty        |-> Pivot(f, "Qty"),
     pivot_sales      |-> Pivot(f, "TotalSales"),
     sku_summary      |-> GroupAgg(f, Col(f, "ProductName")),
     platform_summary |-> GroupAgg(f, Col(f, "Platform")),
     brand_summary    |-> GroupAgg(f, KeyBrand(f)),
     time_sales       |-> GroupSales(f, KeyDay(f)),
     monthly_summary  |-> MonthlySummary(f),
     weekly_summary   |-> WeeklySummary(f),
     city_summary     |-> GroupAgg(f, KeyCity(f))]

\* SidebarKeep with the end of the date range exclusive
SidebarKeepEndExclusive(r, cs, cats, dr) ==
    /\ r.City \in cs
    /\ r.CategoryName \in cats
    /\ Ordinal(r.Date[1]) >= Ordinal(dr[1])
    /\ Ordinal(r.Date[1]) < Ordinal(dr[2])

\* lines 161-166 : the city / category / date mask
SidebarKeep(r, cs, cats, dr) ==
    /\ r.City \in cs
    /\ r.CategoryName \in cats
    /\ Ordinal(r.Date[1]) >= Ordinal(dr[1])
    /\ Ordinal(r.Date[1]) <= Ordinal(dr[2])

FilterSidebar(f, cs, cats, dr) ==
    Mask(f, [i \in 1..Len(f) |-> SidebarKeep(f[i], cs, cats, dr)])

\* line 209 : filtered_df[filtered_df['Platform'].isin(platforms)]
FilterPlatform(f, ps) ==
    Mask(f, [i \in 1..Len(f) |-> f[i].Platform \in ps])


----------------------------------------------------------------------------
(* main *)

NotStarted ==
    /\ df = <<>>
    /\ nat_count = 0
    /\ cities = {}
    /\ categories = {}
    /\ date_range = <<>>
    /\ filtered_df = <<>>
    /\ kpi = <<>>
    /\ charts = <<>>
    /\ platforms = {}
    /\ table_df = <<>>
    /\ tables = <<>>
    /\ outcome = "running"
    /\ pc = "load"

\* a run of main
Init ==
    /\ sales_dfs \in SalesInputs
    /\ product_df \in CatalogSheets
    /\ NotStarted

\* a call of process_data, over all catalogs up to MaxCatalogRows rows
InitMerge ==
    /\ sales_dfs \in SalesInputs
    /\ product_df \in ProductInputs
    /\ NotStarted

\* lines 117-121 : the call of process_data fails with KeyError, which the
\* catch-all handler of main (lines 280-282) reports
ProcessDataRaises ==
    /\ pc = "load"
    /\ ProcessRaises(sales_dfs, product_df)
    /\ outcome' = "exception"
    /\ pc' = "done"
    /\ UNCHANGED <<sales_dfs, product_df, df, nat_count, cities, categories,
                   date_range, filtered_df, kpi, charts, platforms, table_df, tables>>

\* lines 117-121 : df = process_data(sales_dfs, product_df)
ProcessData ==
    /\ pc = "load"
    /\ ~ProcessRaises(sales_dfs, product_df)
    /\ product_df' = ProductCoerced(product_df)
    /\ nat_count' = NatCount(SalesCoerced(Concat(sales_dfs)))
    /\ df' = process_data(sales_dfs, product_df)
    /\ pc' = "check"
    /\ UNCHANGED <<sales_dfs, cities, categories, date_range, filtered_df, kpi,
                   charts, platforms, table_df, tables, outcome>>

\* lines 123-132 : an empty frame ends the run with "No valid data available
\* after processing"
CheckEmpty ==
    /\ pc = "check"
    /\ IF df = <<>>
       THEN outcome' = "no_valid_data" /\ pc' = "done"
       ELSE outcome' = outcome /\ pc' = "sidebar"
    /\ UNCHANGED <<sales_dfs, product_df, df, nat_count, cities, categories,
                   date_range, filtered_df, kpi, charts, platforms, table_df,
                   tables>>

\* the dates the date_input widget offers (cut down to the dates of the data;
\* min_value / max_value are the first and the last of them)
DateChoices == {d[1] : d \in Unique(Col(df, "Date"))}

\* lines 134-158 : the sidebar widgets return the user's selection; a date
\* tuple that has not exactly two entries ends the run with a warning
Sidebar ==
    /\ pc = "sidebar"
    /\ \E cs \in SUBSET Unique(Col(df, "City")),
          cats \in SUBSET Unique(Col(df, "CategoryName")),
          dr \in SeqsUpTo(DateChoices, 2) :
        /\ cities' = cs
        /\ categories' = cats
        /\ date_range' = dr
        /\ IF Len(dr) # 2
           THEN outcome' = "invalid_date_range" /\ pc' = "done"
           ELSE outcome' = outcome /\ pc' = "filter"
    /\ UNCHANGED <<sales_dfs, product_df, df, nat_count, filtered_df, kpi,
                   charts, platforms, table_df, tables>>

\* FilterData without its check for an empty result
FilterDataUnchecked ==
    /\ pc = "filter"
    /\ filtered_df' = FilterSidebar(df, cities, categories, date_range)
    /\ pc' = "kpi"
    /\ UNCHANGED <<sales_dfs, product_df, df, nat_count, cities, categories,
                   date_range, kpi, charts, platforms, table_df, tables, outcome>>

\* lines 160-171 : filter; no row left ends the run with "No data matches the
\* selected filters"
FilterData ==
    /\ pc = "filter"
    /\ filtered_df' = FilterSidebar(df, cities, categories, date_range)
    /\ IF filtered_df' = <<>>
       THEN outcome' = "no_filter_match" /\ pc' = "done"
       ELSE outcome' = outcome /\ pc' = "kpi"
    /\ UNCHANGED <<sales_dfs, product_df, df, nat_count, cities, categories,
                   date_range, kpi, charts, platforms, table_df, tables>>

\* lines 173-202 : KPIs, sales by city, sales by category, from filtered_df
RenderKpis ==
    /\ pc = "kpi"
    /\ kpi' = <<Kpis(filtered_df)>>
    /\ charts' = <<Charts(filtered_df)>>
    /\ pc' = "platform"
    /\ UNCHANGED <<sales_dfs, product_df, df, nat_count, cities, categories,
                   date_range, filtered_df, platforms, table_df, tables, outcome>>

\* lines 204-264 : the platform multiselect, the second filter and the
\* tables; no row left ends the run with "No data matches the selected
\* platform filter"
RenderTables ==
    /\ pc = "platform"
    /\ \E ps \in SUBSET Unique(Col(df, "Platform")) :
        /\ platforms' = ps
        /\ table_df' = FilterPlatform(filtered_df, ps)
        /\ IF table_df' = <<>>
           THEN tables' = tables /\ outcome' = "no_platform_match"
           ELSE tables' = <<Tables(table_df')>> /\ outcome' = "rendered"
    /\ pc' = "done"
    /\ UNCHANGED <<sales_dfs, product_df, df, nat_count, cities, categories,
                   date_range, filtered_df, kpi, charts>>

Next ==
    \/ ProcessDataRaises
    \/ ProcessData
    \/ CheckEmpty
    \/ Sidebar
    \/ FilterData
    \/ RenderKpis
    \/ RenderTables

Spec == Init /\ [][Next]_vars

NextMerge ==
    \/ ProcessDataRaises
    \/ ProcessData

SpecMerge == InitMerge /\ [][NextMerge]_vars

----------------------------------------------------------------------------
(* Properties of process_data (checked under SpecMerge) *)

\* process_data has returned
Returned == pc # "load" /\ outcome # "exception"

\* the raw sales rows in concatenation order
RawRows == Concat(sales_dfs)

RawDateValid(s) == ToDatetime(s.Date) # <<>>

\* positions of the catalog rows whose Item Id, as a string, is that of s
MatchSet(s) == {j \in 1..Len(product_df) : product_df[j].ItemId = AsStr(s.ItemId)}

RECURSIVE Ascending(_)
Ascending(S) ==
    IF S = {} THEN <<>>
    ELSE LET lo == CHOOSE a \in S : \A b \in S : a <= b
         IN  <<lo>> \o Ascending(S \ {lo})

\* the sales and catalog columns of the record that sales row s and catalog
\* entry c (<<>> for none) give
Joined(s, c) ==
    [Date   |-> ToDatetime(s.Date), ItemId |-> AsStr(s.ItemId), City |-> s.City,
     Brand  |-> s.Brand, Qty |-> ToNumeric(s.Qty),
     ProductName     |-> IF c = <<>> THEN <<>> ELSE <<c[1].SKU>>,
     CategoryName    |-> IF c = <<>> THEN <<>> ELSE <<c[1].CategoryName>>,
     SubCategoryName |-> IF c = <<>> THEN <<>> ELSE <<c[1].SubCategoryName>>,
     SalePrice       |-> IF c = <<>> THEN <<>> ELSE c[1].SalePrice,
     Platform        |-> IF c = <<>> THEN <<>> ELSE <<c[1].Platform>>]

\* what one sales row contributes
Contribution(s) ==
    IF ~RawDateValid(s) THEN <<>>
    ELSE IF MatchSet(s) = {} THEN <<Joined(s, <<>>)>>
    ELSE LET js == Ascending(MatchSet(s))
         IN  [k \in 1..Len(js) |-> Joined(s, <<product_df[js[k]]>>)]

RECURSIVE Contributions(_)
Contributions(rows) ==
    IF rows = <<>> THEN <<>>
    ELSE Contribution(Head(rows)) \o Contributions(Tail(rows))

\* an enriched record without its Total Sales column
WithoutTotal(r) == [f \in DOMAIN r \ {"TotalSales"} |-> r[f]]

NumDateValid == Cardinality({i \in 1..Len(RawRows) : RawDateValid(RawRows[i])})

\* C1: the frame process_data returns is, row for row and in concatenation
\* order, one record per matching catalog row (or one record with null catalog
\* fields when nothing matches) for each sales row whose Date parses, and
\* nothing for a row whose Date does not parse; no record has a missing date
\* and there are at least as many records as date-valid sales rows.
C1_LeftJoinInOrder ==
    Returned =>
        /\ [i \in 1..Len(df) |-> WithoutTotal(df[i])] = Contributions(RawRows)
        /\ \A i \in 1..Len(df) : ~IsNa(df[i].Date)
        /\ Len(df) >= NumDateValid

\* a call with a rejected row and a sales row fanned out over two catalog rows
C1_Witness ==
    /\ Returned
    /\ nat_count = 1
    /\ Len(df) = 2
    /\ ~IsNa(df[1].ProductName) /\ ~IsNa(df[2].ProductName)
    /\ df[1].ProductName # df[2].ProductName

HasCatalogFields(r) == ~IsNa(r.CategoryName)

NumEnrichedMatched == Cardinality({i \in 1..Len(df) : HasCatalogFields(df[i])})

\* date-valid sales rows with at least one catalog match
MatchedSalesRows ==
    {i \in 1..Len(RawRows) : RawDateValid(RawRows[i]) /\ MatchSet(RawRows[i]) # {}}

\* (sales row, catalog row) pairs that match, over the date-valid sales rows
MatchPairs ==
    {q \in (1..Len(RawRows)) \X (1..Len(product_df)) :
        RawDateValid(RawRows[q[1]]) /\ q[2] \in MatchSet(RawRows[q[1]])}

CatalogIdsUnique ==
    \A j, k \in 1..Len(product_df) :
        product_df[j].ItemId = product_df[k].ItemId => j = k

\* C2 as stated: the number of enriched records with non-null catalog fields
\* equals the number of (date-valid) sales rows with at least one catalog
\* match, duplicate catalog Item Ids included.
C2_Original ==
    Returned => NumEnrichedMatched = Cardinality(MatchedSalesRows)

\* C2: the number of enriched records with non-null catalog fields equals the
\* number of matching (sales row, catalog row) pairs over the date-valid sales
\* rows; it is at least the number of date-valid sales rows with a match, and
\* equal to it when the catalog holds no Item Id twice.
C2_JoinCompleteness ==
    Returned =>
        /\ NumEnrichedMatched = Cardinality(MatchPairs)
        /\ NumEnrichedMatched >= Cardinality(MatchedSalesRows)
        /\ CatalogIdsUnique => NumEnrichedMatched = Cardinality(MatchedSalesRows)

\* one matched sales row, two enriched records
C2_Witness ==
    /\ Returned
    /\ Cardinality(MatchedSalesRows) = 1
    /\ NumEnrichedMatched = 2

\* C3: in every enriched record Total Sales is present; it is Qty * Sale Price
\* when both are numbers and 0 when Qty or Sale Price is missing (non-numeric
\* input, or no catalog match).
C3_TotalSales ==
    Returned =>
        \A i \in 1..Len(df) :
            /\ ~IsNa(df[i].TotalSales)
            /\ IsNa(df[i].ProductName) => IsNa(df[i].SalePrice)
            /\ IF ~IsNa(df[i].Qty) /\ ~IsNa(df[i].SalePrice)
               THEN df[i].TotalSales[1] = df[i].Qty[1] * df[i].SalePrice[1]
               ELSE df[i].TotalSales[1] = 0

\* Qty 3 at price 10 gives 30; Qty "abc" at price 10 gives 0
C3_Witness ==
    /\ Returned
    /\ \E i \in 1..Len(df) : df[i].TotalSales = <<30>>
    /\ \E i \in 1..Len(df) :
        IsNa(df[i].Qty) /\ df[i].SalePrice = <<10>> /\ df[i].TotalSales = <<0>>

\* C4: the caller of process_data can obtain the number of rows rejected for
\* their Date: what the call returns determines that number, i.e. no other
\* sales input gives the same returned frame with another reject count.
C4_RejectCountSurfaced ==
    Returned =>
        \A s \in SeqsUpTo(SalesRows, MaxSalesRows) :
            (s # <<>> /\ MergeOrEmpty(DropNaDate(SalesCoerced(s)), product_df) = df)
                => NatCount(SalesCoerced(s)) = nat_count

----------------------------------------------------------------------------
(* Properties of main (checked under Spec) *)

NoViews == kpi = <<>> /\ charts = <<>> /\ tables = <<>>

\* the sheets have their columns, there are sales rows, and no Date parses
AllRowsExcluded ==
    /\ product_df # <<>>
    /\ RawRows # <<>>
    /\ \A i \in 1..Len(RawRows) : ~RawDateValid(RawRows[i])

\* the zero-row outcomes, but for what was rendered before them
ZeroRowBranches ==
    /\ AllRowsExcluded => outcome = "no_valid_data"
    /\ outcome = "no_valid_data" =>
        /\ df = <<>> /\ filtered_df = <<>> /\ table_df = <<>>
        /\ cities = {} /\ categories = {} /\ date_range = <<>> /\ platforms = {}
        /\ NoViews
    /\ (df # <<>> /\ Len(date_range) = 2
            /\ FilterSidebar(df, cities, categories, date_range) = <<>>)
        => outcome = "no_filter_match"
    /\ (filtered_df # <<>> /\ FilterPlatform(filtered_df, platforms) = <<>>)
        => outcome = "no_platform_match"
    /\ outcome \in {"no_filter_match", "no_platform_match"} =>
        df # <<>> /\ tables = <<>>

DateRangeChosen == pc = "done" /\ outcome \notin {"exception", "no_valid_data"}

\* C6: a date range with fewer than two bounds, or with its end before its
\* start, is rejected before filtering: the run ends in the invalid-filter
\* outcome (not the zero-rows outcome), nothing filtered or aggregated.
C6_InvalidFilterSpecRejected ==
    (DateRangeChosen /\ (Len(date_range) < 2
                         \/ Ordinal(date_range[2]) < Ordinal(date_range[1])))
        => (outcome = "invalid_date_range" /\ filtered_df = <<>> /\ NoViews)

\* rows of df, by position, that pass each single predicate
CityIdx == {i \in 1..Len(df) : df[i].City \in cities}

CategoryIdx == {i \in 1..Len(df) : df[i].CategoryName \in categories}

DateIdx ==
    {i \in 1..Len(df) : /\ Ordinal(date_range[1]) <= Ordinal(df[i].Date[1])
                        /\ Ordinal(df[i].Date[1]) <= Ordinal(date_range[2])}

PlatformIdx == {i \in 1..Len(df) : df[i].Platform \in platforms}

RowsAt(S) == LET idx == Ascending(S) IN [k \in 1..Len(idx) |-> df[idx[k]]]

FilterRan ==
    \/ pc \in {"kpi", "platform"}
    \/ pc = "done" /\ outcome \in {"no_filter_match", "no_platform_match", "rendered"}

PlatformFilterRan == pc = "done" /\ outcome \in {"no_platform_match", "rendered"}

\* C7: the rows fed to the tables are exactly the rows of the enriched set, in
\* their order, whose city is selected and whose category is selected and
\* whose date lies in [minDate, maxDate] (ends included) and whose platform is
\* selected: the intersection, by row position, of the four single filters
\* (null categories and platforms are values like any other).
C7_FilterConjunction ==
    /\ FilterRan => filtered_df = RowsAt(CityIdx \cap CategoryIdx \cap DateIdx)
    /\ PlatformFilterRan =>
        table_df = RowsAt(CityIdx \cap CategoryIdx \cap DateIdx \cap PlatformIdx)

\* tables rendered from a strict part of the sidebar-filtered rows, itself a
\* strict part of the enriched set, with an unmatched record (null category
\* and platform) kept, one record on the last day of the range
C7_Witness ==
    /\ outcome = "rendered"
    /\ Len(table_df) < Len(filtered_df)
    /\ date_range[1] # date_range[2]
    /\ \E i \in 1..Len(table_df) :
        /\ IsNa(table_df[i].CategoryName)
        /\ IsNa(table_df[i].Platform)
    /\ \E i \in 1..Len(filtered_df) : filtered_df[i].Date = <<date_range[2]>>

RECURSIVE FnSum(_)
\* sum of the values of a function with a finite domain
FnSum(g) ==
    IF DOMAIN g = {} THEN 0
    ELSE LET k == CHOOSE x \in DOMAIN g : TRUE
         IN  g[k] + FnSum([x \in DOMAIN g \ {k} |-> g[x]])

\* one metric of a grouped view, per group
Metric(view, name) == [k \in DOMAIN view |-> view[k][name]]

\* a qty / sales view conserves both totals of the rows f
Conserves(view, f) ==
    /\ FnSum(Metric(view, "Qty")) = Kpis(f).total_qty
    /\ FnSum(Metric(view, "TotalSales")) = Kpis(f).total_sales

\* C8: for every grouping dimension the per-group sales sums add up to the
\* total-sales KPI of the same rows and the per-group quantity sums to the
\* quantity KPI (missing quantities as 0): no record is lost from a view.
C8_AggregationConservation ==
    /\ charts # <<>> =>
        /\ FnSum(charts[1].city_sales) = Kpis(filtered_df).total_sales
        /\ FnSum(charts[1].category_sales) = Kpis(filtered_df).total_sales
    /\ tables # <<>> =>
        /\ Conserves(tables[1].city_summary, table_df)
        /\ Conserves(tables[1].brand_summary, table_df)
        /\ Conserves(tables[1].monthly_summary, table_df)
        /\ Conserves(tables[1].weekly_summary, table_df)
        /\ FnSum(tables[1].time_sales) = Kpis(table_df).total_sales
        /\ Conserves(tables[1].sku_summary, table_df)
        /\ Conserves(tables[1].platform_summary, table_df)
        /\ FnSum(tables[1].pivot_qty) = Kpis(table_df).total_qty
        /\ FnSum(tables[1].pivot_sales) = Kpis(table_df).total_sales

\* C9: the average selling price is total sales / total quantity whenever the
\* quantity sum is not 0 (negative sums included), and 0 when it is 0.
C9_AvgSellingPrice ==
    kpi # <<>> =>
        LET k == kpi[1] IN
        /\ k.total_qty # 0 =>
            k.avg_selling_price.num * k.total_qty
                = k.total_sales * k.avg_selling_price.den
        /\ k.total_qty = 0 => k.avg_selling_price.num = 0

\* ordinal of the Monday of the ISO week of a date
IsoMonday(t) == Ordinal(t) - Weekday(t)

\* C10: each weekly row aggregates exactly the records of one Monday-to-Sunday
\* week: its week start is that Monday, records of one such week share a row,
\* and the rows are in ascending week-start order.
C10_WeeklyIsoWeeks ==
    tables # <<>> =>
        LET w == tables[1].weekly_summary
            InWeek(i) == Mask(table_df, [j \in 1..Len(table_df) |->
                            IsoMonday(table_df[j].Date[1]) = w[i].WeekStart])
        IN  /\ \A i \in 1..Len(w) :
                /\ (w[i].WeekStart + 6) % 7 = 0
                /\ w[i].Qty = Kpis(InWeek(i)).total_qty
                /\ w[i].TotalSales = Kpis(InWeek(i)).total_sales
            /\ Len(w) = Cardinality({IsoMonday(table_df[i].Date[1]) :
                                        i \in 1..Len(table_df)})
            /\ \A i \in 1..(Len(w) - 1) : w[i].WeekStart <= w[i + 1].WeekStart

====
